---- MODULE Spec2Model ----
(***************************************************************************)
(* A model of the path tracer of KBone12/ray-tracing.                      *)
(*                                                                         *)
(*   TraceSpec   ray_color (main.rs): the loop that follows one ray and    *)
(*               the fold over its stack of attenuations.                  *)
(*   RenderSpec  main (main.rs): the header, the jitter table, the         *)
(*               scan-line loops, the per-pixel fold and write_color.      *)
(*   HitSpec     Sphere::hit and Vec<H>::hit (hittable.rs).                *)
(*   MetalSpec   Metal::new and Metal::scatter (material.rs).              *)
(*                                                                         *)
(* Numbers.  The program computes in f64.  Colours are modelled in tenths  *)
(* (10 is 1.0) with a product that rounds, so that the order in which      *)
(* products are taken is visible.  Geometry is modelled in exact rational  *)
(* arithmetic, a rational being a record [n |-> numerator, d |->           *)
(* denominator]; the scenes are drawn from those whose discriminants are   *)
(* perfect squares and the directions from those of integer length, so     *)
(* that sqrt and normalize are exact.                                      *)
(***************************************************************************)
EXTENDS Integers, Sequences, FiniteSets, TLC

VARIABLES
    \* ray_color
    max_depth,      \* the depth argument
    ray,            \* the ray followed, as the y of its unit direction, in tenths
    depth,          \* bounces left
    stack,          \* the VecDeque of colours
    tpc,            \* "loop", "fold" or "returned"
    color,          \* the value returned
    outcomes,       \* history: what the scene answered at every iteration
    nHit,           \* history: calls of hittable.hit
    nScatter,       \* history: calls of material.scatter
    exits,          \* history: the ways the loop was left
    \* main
    width, height, samples, rpc, y, x, s, acc, out, reads, uv, lastRGB,
    \* Vec<Sphere>::hit
    hray, range, scene, memberHits, hitResult, hpc,
    \* Metal
    fuzzArg, metal, mray, mrecord, mrandom, scattered, mpc

traceVars  == <<max_depth, ray, depth, stack, tpc, color, outcomes, nHit, nScatter, exits>>
renderVars == <<width, height, samples, rpc, y, x, s, acc, out, reads, uv, lastRGB>>
hitVars    == <<hray, range, scene, memberHits, hitResult, hpc>>
metalVars  == <<fuzzArg, metal, mray, mrecord, mrandom, scattered, mpc>>
vars       == <<traceVars, renderVars, hitVars, metalVars>>

\* The state of a part of the program that a specification does not run.
TraceIdle ==
    /\ max_depth = 0 /\ ray = 0 /\ depth = 0 /\ stack = <<>> /\ tpc = "idle"
    /\ color = <<0, 0, 0>> /\ outcomes = <<>> /\ nHit = 0 /\ nScatter = 0 /\ exits = {}
RenderIdle ==
    /\ width = 0 /\ height = 0 /\ samples = 0 /\ rpc = "idle" /\ y = 0 /\ x = 0 /\ s = 0
    /\ acc = <<0, 0, 0>> /\ out = <<>> /\ reads = <<>> /\ uv = <<>> /\ lastRGB = <<>>
HitIdle ==
    /\ hray = <<>> /\ range = <<>> /\ scene = <<>> /\ memberHits = <<>>
    /\ hitResult = <<>> /\ hpc = "idle"
MetalIdle ==
    /\ fuzzArg = 0 /\ metal = <<>> /\ mray = <<>> /\ mrecord = <<>> /\ mrandom = <<>>
    /\ scattered = <<>> /\ mpc = "idle"

-----------------------------------------------------------------------------
(* Colours: Vector3<f64> in tenths, with a rounding product.               *)

Color(r, g, b) == <<r, g, b>>

\* f64 multiplication of two channel values: the exact product, rounded.
MulChannel(a, b) == (a * b) \div 10

mul_element_wise(c, d) == <<MulChannel(c[1], d[1]), MulChannel(c[2], d[2]), MulChannel(c[3], d[3])>>

AddColor(c, d) == <<c[1] + d[1], c[2] + d[2], c[3] + d[3]>>

-----------------------------------------------------------------------------
(* ray_color, main.rs 33-63                                                *)

\* The deepest max_depth a trace is started with.
MaxDepth == 3

\* Rays, by the y of the unit direction: level and straight up.
Rays == {0, 10}

\* The attenuations of the scene's opaque materials (main.rs 91, 152, 157).
Attenuations == {Color(5, 5, 5), Color(4, 2, 1), Color(7, 6, 5)}

\* The colour pushed when the bounce budget is spent (main.rs 39).
ExhaustedColorWhite == Color(10, 10, 10)
ExhaustedColor == Color(0, 0, 0)

\* The colour pushed when the material absorbs the ray (main.rs 50).
AbsorbedColor == Color(0, 0, 0)

\* The sky gradient (main.rs 54-56): t = (unit_direction.y + 1) / 2, then
\* (1 - t) * white + t * (0.5, 0.7, 1.0).
SkyColor(r) ==
    LET t == (r + 10) \div 2
    IN  <<((10 - t) * 10 + t * 5) \div 10,
          ((10 - t) * 10 + t * 7) \div 10,
          ((10 - t) * 10 + t * 10) \div 10>>

\* depth -= 1 (main.rs 48).
NextDepthSame(d) == d
NextDepth(d) == d - 1

\* stack.iter().fold(init, f): front to back.
RECURSIVE FoldFront(_, _)
FoldFront(st, a) ==
    IF st = <<>> THEN a ELSE FoldFront(Tail(st), mul_element_wise(Head(st), a))

\* stack.iter().rfold(init, |acc, color| color.mul_element_wise(acc)): back
\* to front (main.rs 60-62).
RECURSIVE RFoldBack(_, _)
RFoldBack(st, a) ==
    IF st = <<>> THEN a
    ELSE RFoldBack(SubSeq(st, 1, Len(st) - 1), mul_element_wise(st[Len(st)], a))

FoldStackForward(st) == FoldFront(st, Color(10, 10, 10))
FoldStack(st) == RFoldBack(st, Color(10, 10, 10))

TraceInit ==
    /\ max_depth \in 0..MaxDepth
    /\ ray \in Rays
    /\ depth = max_depth
    /\ stack = <<>>
    /\ tpc = "loop"
    /\ color = <<0, 0, 0>>
    /\ outcomes = <<>>
    /\ nHit = 0
    /\ nScatter = 0
    /\ exits = {}
    /\ RenderIdle /\ HitIdle /\ MetalIdle

\* One iteration of the loop, main.rs 37-59.  What hittable.hit and
\* material.scatter answer is the scene's and the generator's choice.
ray_color_loop ==
    /\ tpc = "loop"
    /\ \/ /\ depth = 0                                    \* 38-41
          /\ stack' = Append(stack, ExhaustedColor)
          /\ exits' = exits \cup {"depth"}
          /\ tpc' = "fold"
          /\ UNCHANGED <<ray, depth, outcomes, nHit, nScatter>>
       \/ /\ depth # 0                                    \* 43-52, a hit
          /\ nHit' = nHit + 1
          /\ nScatter' = nScatter + 1
          /\ \/ \E next \in Rays, att \in Attenuations :  \* 45-48
                  /\ stack' = Append(stack, att)
                  /\ ray' = next
                  /\ depth' = NextDepth(depth)
                  /\ outcomes' = Append(outcomes,
                         [kind |-> "scatter", ray |-> ray, attenuation |-> att, scattered |-> next])
                  /\ UNCHANGED <<tpc, exits>>
             \/ /\ stack' = Append(stack, AbsorbedColor)  \* 49-52
                /\ exits' = exits \cup {"absorb"}
                /\ tpc' = "fold"
                /\ outcomes' = Append(outcomes, [kind |-> "absorb", ray |-> ray])
                /\ UNCHANGED <<ray, depth>>
       \/ /\ depth # 0                                    \* 53-58, a miss
          /\ nHit' = nHit + 1
          /\ stack' = Append(stack, SkyColor(ray))
          /\ exits' = exits \cup {"miss"}
          /\ tpc' = "fold"
          /\ outcomes' = Append(outcomes, [kind |-> "miss", ray |-> ray])
          /\ UNCHANGED <<ray, depth, nScatter>>
    /\ UNCHANGED <<max_depth, color>>
    /\ UNCHANGED <<renderVars, hitVars, metalVars>>

\* The fold over the stack and the return, main.rs 60-62.
ray_color_fold ==
    /\ tpc = "fold"
    /\ color' = FoldStack(stack)
    /\ tpc' = "returned"
    /\ UNCHANGED <<max_depth, ray, depth, stack, outcomes, nHit, nScatter, exits>>
    /\ UNCHANGED <<renderVars, hitVars, metalVars>>

TraceNext == ray_color_loop \/ ray_color_fold

TraceSpec == TraceInit /\ [][TraceNext]_vars

\* ray_color is straight-line code on one thread: a step that can be taken is taken.
TraceFairSpec == TraceSpec /\ WF_vars(TraceNext)

-----------------------------------------------------------------------------
(* Properties of ray_color                                                 *)

\* The ray that ray_color was called with.
FirstRay == IF outcomes = <<>> THEN ray ELSE outcomes[1].ray

\* The recursive definition of the integrator: black at depth 0, the sky on
\* a miss, black on an absorbing hit, and on a scattering hit the
\* attenuation times (channel by channel) the trace of the scattered ray
\* with one bounce less.  os lists the scene's answers along the path.
RECURSIVE trace(_, _, _)
trace(r, os, d) ==
    IF d = 0 THEN <<0, 0, 0>>
    ELSE LET o == Head(os)
         IN  CASE o.kind = "miss"    -> SkyColor(r)
               [] o.kind = "absorb"  -> <<0, 0, 0>>
               [] o.kind = "scatter" ->
                      mul_element_wise(o.attenuation, trace(o.scattered, Tail(os), d - 1))

\* C1: whatever the scene answers, the colour ray_color returns from its loop
\* and stack is the colour the recursive definition gives for the same ray,
\* the same max_depth and the same answers.
C1_LoopEqualsRecursion ==
    tpc = "returned" => color = trace(FirstRay, outcomes, max_depth)

\* Two scattering hits and then the sky, with a colour that rounding touches.
C1_Witness ==
    /\ tpc = "returned"
    /\ Len(outcomes) = 3
    /\ outcomes[1].kind = "scatter" /\ outcomes[1].attenuation = Color(7, 6, 5)
    /\ outcomes[2].kind = "scatter" /\ outcomes[2].attenuation = Color(4, 2, 1)
    /\ outcomes[3].kind = "miss"
    /\ color # <<0, 0, 0>>

\* C2: called with depth = 0, ray_color returns black and asks neither for
\* an intersection nor for a scatter.
C2_DepthZeroIsBlack ==
    max_depth = 0 =>
        /\ nHit = 0
        /\ nScatter = 0
        /\ tpc = "returned" => color = <<0, 0, 0>>

C2_Witness == max_depth = 0 /\ tpc = "returned" /\ stack # <<>>

\* C3: the loop ends; it is left in exactly one way (the budget spent, a
\* miss, or an absorbing hit); and it asks for at most max_depth
\* intersections and at most max_depth scatters.
C3_Terminates ==
    /\ <>(tpc = "returned")
    /\ [](/\ nHit <= max_depth
          /\ nScatter <= max_depth
          /\ tpc = "loop" => exits = {}
          /\ tpc \in {"fold", "returned"} =>
                 /\ Cardinality(exits) = 1
                 /\ exits \subseteq {"depth", "miss", "absorb"})

\* Every hit scattered: the budget is spent after max_depth queries.
C3_Witness ==
    /\ tpc = "returned"
    /\ max_depth >= 2
    /\ exits = {"depth"}
    /\ nHit = max_depth /\ nScatter = max_depth

-----------------------------------------------------------------------------
(* main, main.rs 174-196, and write_color, main.rs 65-78                   *)

\* The largest IMAGE_WIDTH, IMAGE_HEIGHT and SAMPLES_PER_PIXEL of a render.
MaxWidth == 3
MaxHeight == 3
MaxSamples == 2

\* The jitter values are the multiples of 1/JitterSteps in [0, 1).
JitterSteps == 2

\* The colours ray_color hands back to the pixel fold: black and sky blue.
SampleColors == {Color(0, 0, 0), Color(5, 7, 10)}

\* take(2 * SAMPLES_PER_PIXEL * IMAGE_WIDTH * IMAGE_HEIGHT), main.rs 180.
TableLength == 2 * samples * width * height

\* let index = ..., main.rs 186.
SampleIndexNoStride(py, px, ps) == py * width + px * samples + ps
SampleIndex(py, px, ps) == py * (width * samples) + px * samples + ps

\* u, main.rs 187: (x + random_numbers[index * 2]) / (IMAGE_WIDTH - 1), with
\* the jitter j / JitterSteps.
ScreenU(px, j) == [n |-> px * JitterSteps + j, d |-> JitterSteps * (width - 1)]

\* v, main.rs 188-189: ((IMAGE_HEIGHT - y) + random_numbers[index * 2 + 1])
\* / (IMAGE_HEIGHT - 1).
ScreenV(py, j) == [n |-> (height - py) * JitterSteps + j, d |-> JitterSteps * (height - 1)]

\* The pixel after (px, py) in the loops of main.rs 182 and 184: x runs
\* inside y.
NextPixelColumnMajor(px, py) ==
    IF py + 1 < height THEN <<px, py + 1>> ELSE <<px + 1, 0>>
NextPixel(px, py) ==
    IF px + 1 < width THEN <<px + 1, py>> ELSE <<0, py + 1>>

\* One channel of write_color, main.rs 67-75: the sum c (in tenths) over n
\* samples becomes (256.0 * sqrt(c / n).max(0.0).min(0.999)) as i32.  The
\* floor of 256 * sqrt(q) is the largest k with k * k <= 65536 * q, and
\* 256 * 0.999 = 255.744 truncates to 255.
Channel(c, n) ==
    LET k == CHOOSE k \in 0..256 :
                 /\ k * k * 10 * n <= 65536 * c
                 /\ (k + 1) * (k + 1) * 10 * n > 65536 * c
    IN  IF k > 255 THEN 255 ELSE k

write_color(c, n) == <<Channel(c[1], n), Channel(c[2], n), Channel(c[3], n)>>

RenderInit ==
    /\ width \in 2..MaxWidth
    /\ height \in 2..MaxHeight
    /\ samples \in 1..MaxSamples
    /\ rpc = "P3"
    /\ y = 0 /\ x = 0 /\ s = 0
    /\ acc = Color(0, 0, 0)
    /\ out = <<>>
    /\ reads = <<>>
    /\ uv = <<>>
    /\ lastRGB = <<>>
    /\ TraceIdle /\ HitIdle /\ MetalIdle

\* println! and writeln!(...).expect(...): the line is written, or the
\* write fails and the program panics.
Emit(line, next) ==
    \E written \in BOOLEAN :
        IF written
        THEN out' = Append(out, line) /\ rpc' = next
        ELSE out' = out /\ rpc' = "panicked"

\* println!("P3"), main.rs 175.
print_magic ==
    /\ rpc = "P3"
    /\ Emit(<<"P3">>, "dims")
    /\ UNCHANGED <<width, height, samples, y, x, s, acc, reads, uv, lastRGB>>
    /\ UNCHANGED <<traceVars, hitVars, metalVars>>

\* println!("{} {}", IMAGE_WIDTH, IMAGE_HEIGHT), main.rs 176.
print_size ==
    /\ rpc = "dims"
    /\ Emit(<<width, height>>, "max")
    /\ UNCHANGED <<width, height, samples, y, x, s, acc, reads, uv, lastRGB>>
    /\ UNCHANGED <<traceVars, hitVars, metalVars>>

\* println!("255") and the collection of random_numbers, main.rs 177-181;
\* then the loops are entered at y = 0, x = 0 with an empty fold.
print_max_color ==
    /\ rpc = "max"
    /\ Emit(<<255>>, "sample")
    /\ UNCHANGED <<width, height, samples, y, x, s, acc, reads, uv, lastRGB>>
    /\ UNCHANGED <<traceVars, hitVars, metalVars>>

\* One step of the fold over 0..SAMPLES_PER_PIXEL, main.rs 185-192.  The two
\* table entries and the colour ray_color returns are the generator's and the
\* scene's choice.  Indexing past the table panics.
sample ==
    /\ rpc = "sample"
    /\ LET index == SampleIndex(y, x, s)
       IN  /\ reads' = reads \o <<index * 2, index * 2 + 1>>
           /\ IF index * 2 + 1 >= TableLength
              THEN /\ rpc' = "panicked"
                   /\ UNCHANGED <<s, acc, uv>>
              ELSE \E j1 \in 0..(JitterSteps - 1), j2 \in 0..(JitterSteps - 1),
                      c \in SampleColors :
                       /\ uv' = [u |-> ScreenU(x, j1), v |-> ScreenV(y, j2)]
                       /\ acc' = AddColor(acc, c)
                       /\ s' = s + 1
                       /\ rpc' = IF s + 1 = samples THEN "write" ELSE "sample"
    /\ UNCHANGED <<width, height, samples, y, x, out, lastRGB>>
    /\ UNCHANGED <<traceVars, hitVars, metalVars>>

\* write_color(stdout, color, SAMPLES_PER_PIXEL), main.rs 193, and the step
\* of the x and y loops; after the last pixel, "Done" (main.rs 196).
write_pixel ==
    /\ rpc = "write"
    /\ LET next == NextPixel(x, y)
           more == next[1] < width /\ next[2] < height
       IN  /\ Emit([x |-> x, y |-> y], IF more THEN "sample" ELSE "done")
           /\ IF rpc' = "panicked"
              THEN UNCHANGED <<x, y, s, acc, uv, lastRGB>>
              ELSE /\ lastRGB' = write_color(acc, samples)
                   /\ x' = next[1]
                   /\ y' = next[2]
                   /\ s' = 0
                   /\ acc' = Color(0, 0, 0)
                   /\ uv' = <<>>
    /\ UNCHANGED <<width, height, samples, reads>>
    /\ UNCHANGED <<traceVars, hitVars, metalVars>>

RenderNext == print_magic \/ print_size \/ print_max_color \/ sample \/ write_pixel

RenderSpec == RenderInit /\ [][RenderNext]_vars

-----------------------------------------------------------------------------
(* Properties of main                                                      *)

IsPrefix(p, q) == Len(p) <= Len(q) /\ \A i \in 1..Len(p) : p[i] = q[i]

\* The output of a whole render: the three header lines, then one line per
\* pixel, row by row from y = 0, each row from x = 0.
ExpectedOut ==
    <<(<<"P3">>), <<width, height>>, (<<255>>)>> \o
    [i \in 1..(width * height) |-> [x |-> (i - 1) % width, y |-> (i - 1) \div width]]

\* C4: at every moment the output is the beginning of: P3, "<width>
\* <height>", 255, then the pixels in row-major order; a finished render has
\* written all of it, so width * height pixel lines, none twice and none
\* skipped.  Row y = 0 is the top scan line: the samples of a row lie at or
\* above v = (height - y) / (height - 1), which every sample of the rows
\* after it lies below.
C4_RowMajorOutput ==
    /\ IsPrefix(out, ExpectedOut)
    /\ rpc = "done" => out = ExpectedOut
    /\ uv # <<>> =>
           /\ uv.v.n >= JitterSteps * (height - y)
           /\ uv.v.n < JitterSteps * (height - y + 1)

C4_Witness ==
    /\ rpc = "done"
    /\ width = 3 /\ height = 2
    /\ Len(out) = 3 + 6
    /\ out[5] = [x |-> 1, y |-> 0]
    /\ out[7] = [x |-> 0, y |-> 1]

\* C9: the screen coordinates handed to camera.ray lie in [0, 1].
C9_ScreenCoordinatesInUnitSquare ==
    uv # <<>> =>
        /\ 0 <= uv.u.n /\ uv.u.n <= uv.u.d
        /\ 0 <= uv.v.n /\ uv.v.n <= uv.v.d

\* C10: every index used to read random_numbers is inside the table, and no
\* entry is read twice, neither by two samples nor for both coordinates.
C10_JitterReadsInBoundsAndDistinct ==
    /\ \A i \in 1..Len(reads) : 0 <= reads[i] /\ reads[i] < TableLength
    /\ Cardinality({reads[i] : i \in 1..Len(reads)}) = Len(reads)

\* A whole render with several samples per pixel has read the whole table.
C10_Witness ==
    /\ rpc = "done"
    /\ samples = 2 /\ width = 3 /\ height = 2
    /\ Len(reads) = TableLength

-----------------------------------------------------------------------------
(* Exact arithmetic for the geometry.  A vector is a triple of integers; a *)
(* rational is [n, d] and a rational vector [v, d], the value being n / d  *)
(* and v / d; d is never 0 here (no sphere of radius 0 and no ray of       *)
(* direction 0 is drawn), and it is negative only after a division by a    *)
(* negative radius.  Option<T> is <<>> for None and <<t>> for Some(t).     *)

None == <<>>
Some(v) == <<v>>

dot(a, b) == a[1] * b[1] + a[2] * b[2] + a[3] * b[3]
VSub(a, b) == <<a[1] - b[1], a[2] - b[2], a[3] - b[3]>>
VAdd(a, b) == <<a[1] + b[1], a[2] + b[2], a[3] + b[3]>>
VScale(k, a) == <<k * a[1], k * a[2], k * a[3]>>

\* q < 0.0 for the quotient q = n / d.
RatNegative(q) == q.n * q.d < 0

\* a.partial_cmp(&b) for quotients of positive denominators.
partial_cmp(a, b) ==
    IF a.n * b.d < b.n * a.d THEN "Less"
    ELSE IF a.n * b.d > b.n * a.d THEN "Greater" ELSE "Equal"

\* f64::sqrt on the perfect squares.
Sqrt(k) == CHOOSE r \in 0..k : r * r = k
IsSquare(k) == \E r \in 0..k : r * r = k

-----------------------------------------------------------------------------
(* Sphere::hit, hittable.rs 43-86, and Vec<H>::hit, hittable.rs 19-25      *)

\* The most members a scene has.
MaxSpheres == 2

\* Ray::at, main.rs 26-28: origin + t * direction, for t = n / d.
at(r, t) == [v |-> VAdd(VScale(t.d, r.origin), VScale(t.n, r.direction)), d |-> t.d]

\* t_range.contains(&root), hittable.rs 54 and 68.  The range is lo.. or
\* lo..hi, its ends in thousandths (ray_color asks for 0.001..).
contains(rg, root) ==
    /\ rg.lo * root.d <= 1000 * root.n
    /\ rg.bounded => 1000 * root.n < rg.hi * root.d

\* The coefficients, hittable.rs 45-49.
vec_from_center(r, sp) == VSub(r.origin, sp.center)
QuadA(r) == dot(r.direction, r.direction)
HalfB(r, sp) == dot(vec_from_center(r, sp), r.direction)
QuadC(r, sp) == dot(vec_from_center(r, sp), vec_from_center(r, sp)) - sp.radius * sp.radius
discriminant(r, sp) == HalfB(r, sp) * HalfB(r, sp) - QuadA(r) * QuadC(r, sp)

\* let front_face = ray.direction.dot((p - self.center) / self.radius) < 0.0,
\* hittable.rs 58 and 72; p = p.v / p.d.
FrontFaceUndivided(r, sp, p) ==
    RatNegative([n |-> dot(r.direction, VSub(p.v, VScale(p.d, sp.center))), d |-> p.d])
FrontFace(r, sp, p) ==
    RatNegative([n |-> dot(r.direction, VSub(p.v, VScale(p.d, sp.center))),
                 d |-> p.d * sp.radius])

\* The record built at hittable.rs 55-65 and 69-79 for the root t.
Record(r, sp, t) ==
    LET p == at(r, t)
        normal == [v |-> VSub(p.v, VScale(p.d, sp.center)), d |-> p.d * sp.radius]
        front_face == FrontFace(r, sp, p)
    IN  [p |-> p,
         normal |-> IF front_face THEN normal ELSE [v |-> VScale(-1, normal.v), d |-> normal.d],
         material |-> sp.material,
         t |-> t,
         front_face |-> front_face]

\* Sphere::hit, hittable.rs 44-85.
SphereHit(r, rg, sp) ==
    IF discriminant(r, sp) < 0 THEN None
    ELSE LET near == [n |-> -HalfB(r, sp) - Sqrt(discriminant(r, sp)), d |-> QuadA(r)]
             far  == [n |-> -HalfB(r, sp) + Sqrt(discriminant(r, sp)), d |-> QuadA(r)]
         IN  IF contains(rg, near) THEN Some(Record(r, sp, near))
             ELSE IF contains(rg, far) THEN Some(Record(r, sp, far))
             ELSE None

\* The closure of Iterator::min_by's reduction: of the minimum so far and the
\* next element, the next one is kept only if it is strictly smaller.
MinByStepLast(a, b) == IF partial_cmp(a.t, b.t) \in {"Greater", "Equal"} THEN b ELSE a
MinByStep(a, b) == IF partial_cmp(a.t, b.t) = "Greater" THEN b ELSE a

\* Iterator::min_by, hittable.rs 23.
RECURSIVE Reduce(_, _)
Reduce(m, rest) == IF rest = <<>> THEN m ELSE Reduce(MinByStep(m, Head(rest)), Tail(rest))
min_by(hits) == IF hits = <<>> THEN None ELSE Some(Reduce(Head(hits), Tail(hits)))

\* filter_map, hittable.rs 22: the hits of the members, in order.  Each is
\* tagged with the place of its member in the Vec (history: the record of the
\* program does not carry it).
RECURSIVE filter_map(_, _)
filter_map(opts, i) ==
    IF i > Len(opts) THEN <<>>
    ELSE (IF opts[i] = None THEN <<>> ELSE <<opts[i][1] @@ [member |-> i]>>)
         \o filter_map(opts, i + 1)

Origins == {<<0, 0, 0>>}
Directions == {<<0, 0, -1>>, <<0, 3, -4>>}
Centers == {<<0, 0, -2>>, <<0, 0, -3>>, <<0, 1, -3>>, <<0, 0, 0>>}
Radii == {-1, 1, 2}
Ranges == {[lo |-> 1, bounded |-> FALSE, hi |-> 0],
           [lo |-> 1, bounded |-> TRUE, hi |-> 2500],
           [lo |-> 1500, bounded |-> FALSE, hi |-> 0]}
Spheres == [center : Centers, radius : Radii, material : {"m"}]

\* The scenes of at most MaxSpheres members.
Scenes == UNION {[1..k -> Spheres] : k \in 0..MaxSpheres}

HitInit ==
    /\ hray \in [origin : Origins, direction : Directions]
    /\ range \in Ranges
    /\ scene \in Scenes
    /\ \A i \in 1..Len(scene) :
           discriminant(hray, scene[i]) >= 0 => IsSquare(discriminant(hray, scene[i]))
    /\ memberHits = <<>>
    /\ hitResult = None
    /\ hpc = "call"
    /\ TraceIdle /\ RenderIdle /\ MetalIdle

\* Vec<H>::hit, hittable.rs 20-24.
vec_hit ==
    /\ hpc = "call"
    /\ memberHits' = [i \in 1..Len(scene) |-> SphereHit(hray, range, scene[i])]
    /\ hitResult' = min_by(filter_map(memberHits', 1))
    /\ hpc' = "returned"
    /\ UNCHANGED <<hray, range, scene>>
    /\ UNCHANGED <<traceVars, renderVars, metalVars>>

HitNext == vec_hit

HitSpec == HitInit /\ [][HitNext]_vars

-----------------------------------------------------------------------------
(* Properties of the intersection                                          *)

\* The roots of a t^2 + 2 half_b t + c = 0, as numerators over a: n / a is a
\* root exactly when n^2 + 2 half_b n + a c = 0.
RootBound(r, sp) ==
    LET abs(k) == IF k < 0 THEN -k ELSE k
    IN  2 * abs(HalfB(r, sp)) + abs(QuadA(r) * QuadC(r, sp)) + 1
RootsIn(r, rg, sp) ==
    {n \in (-RootBound(r, sp))..RootBound(r, sp) :
        /\ n * n + 2 * HalfB(r, sp) * n + QuadA(r) * QuadC(r, sp) = 0
        /\ contains(rg, [n |-> n, d |-> QuadA(r)])}

\* The accepted root of a member that has a root in the interval: the smaller
\* root if it is in the interval, else the larger.
Least(S) == CHOOSE n \in S : \A m \in S : n <= m
AcceptedRoot(i) == Least(RootsIn(hray, range, scene[i]))
Hitting == {i \in 1..Len(scene) : RootsIn(hray, range, scene[i]) # {}}

\* C5: the aggregate answers None exactly when no member has a root in the
\* interval; otherwise it answers with the hit of a member whose accepted
\* root is the least of all, and of the members that share that root, the
\* first.
C5_NearestHitFirstWins ==
    hpc = "returned" =>
        /\ hitResult = None <=> Hitting = {}
        /\ hitResult # None =>
               LET h == hitResult[1]
               IN  /\ h.member \in Hitting
                   /\ h.t = [n |-> AcceptedRoot(h.member), d |-> QuadA(hray)]
                   /\ \A f \in {"p", "normal", "material", "t", "front_face"} :
                          h[f] = memberHits[h.member][1][f]
                   /\ \A j \in Hitting : AcceptedRoot(h.member) <= AcceptedRoot(j)
                   /\ \A j \in Hitting : j < h.member => AcceptedRoot(h.member) < AcceptedRoot(j)

\* Two different spheres met at the same t = 1: the first one is answered.
C5_Witness ==
    /\ hpc = "returned"
    /\ Len(scene) = 2
    /\ scene[1] # scene[2]
    /\ Hitting = {1, 2}
    /\ AcceptedRoot(1) = AcceptedRoot(2)
    /\ hitResult # None /\ hitResult[1].member = 1

\* direction . (p - center), times the positive denominator of p.
DirDotOutward(i) ==
    LET h == memberHits[i][1]
    IN  dot(hray.direction, VSub(h.p.v, VScale(h.p.d, scene[i].center)))

\* C6 as stated: for every hit Sphere::hit returns, of a sphere of any
\* radius, front_face is true exactly when direction . (p - center) < 0.
C6_FrontFaceIgnoresRadiusSign ==
    \A i \in 1..Len(memberHits) :
        memberHits[i] # None => (memberHits[i][1].front_face <=> DirDotOutward(i) < 0)

\* C6, amended: front_face is true exactly when direction . (p - center) < 0
\* for a sphere of positive radius, and exactly when direction . (p - center)
\* > 0 for a sphere of negative radius.
C6_FrontFaceFollowsRadiusSign ==
    \A i \in 1..Len(memberHits) :
        memberHits[i] # None =>
            (memberHits[i][1].front_face <=>
                \/ scene[i].radius > 0 /\ DirDotOutward(i) < 0
                \/ scene[i].radius < 0 /\ DirDotOutward(i) > 0)

\* A sphere of negative radius met from outside (front_face false) and one
\* met from inside (front_face true).
C6_Witness ==
    /\ hpc = "returned"
    /\ Len(scene) = 2
    /\ scene[1].radius < 0 /\ scene[2].radius < 0
    /\ memberHits[1] # None /\ memberHits[2] # None
    /\ DirDotOutward(1) < 0 /\ ~memberHits[1][1].front_face
    /\ DirDotOutward(2) > 0 /\ memberHits[2][1].front_face

-----------------------------------------------------------------------------
(* Metal::new, material.rs 45-53, and Metal::scatter, material.rs 55-73    *)

\* Rational vectors [v, d] of positive denominator.
RVAdd(a, b) == [v |-> VAdd(VScale(b.d, a.v), VScale(a.d, b.v)), d |-> a.d * b.d]
RVScale(q, a) == [v |-> VScale(q.n, a.v), d |-> q.d * a.d]
RVDot(a, b) == [n |-> dot(a.v, b.v), d |-> a.d * b.d]
RatPositive(q) == q.n * q.d > 0

\* InnerSpace::normalize, for a vector of integer length.
normalize(a) == [v |-> a, d |-> Sqrt(dot(a, a))]

\* fuzz.min(1.0), material.rs 49.
Min1(q) == IF q.n > q.d THEN [n |-> 1, d |-> 1] ELSE q

\* Metal::new, material.rs 46-52.
MetalNew(albedo, fuzz) == [albedo |-> albedo, fuzz |-> Min1(fuzz)]

\* reflected, material.rs 57-59.
Reflected(r, rec) ==
    LET normalized_ray_direction == normalize(r.direction)
        twice == RVDot(normalized_ray_direction, rec.normal)
    IN  RVAdd(normalized_ray_direction,
              RVScale([n |-> -2 * twice.n, d |-> twice.d], rec.normal))

\* Metal::scatter, material.rs 56-72; random_vector is what
\* random_vector_in_unit_sphere draws when it is called.
MetalScatter(m, r, rec, random_vector) ==
    LET reflected == Reflected(r, rec)
    IN  IF RatPositive(RVDot(reflected, rec.normal))
        THEN Some([ray |-> [origin |-> rec.p,
                            direction |-> RVAdd(reflected, RVScale(m.fuzz, random_vector))],
                   attenuation |-> m.albedo])
        ELSE None

\* The fuzz arguments, in halves: -1/2, 0, 1/2, 1, 3/2.
FuzzArgs == {[n |-> k, d |-> 2] : k \in -1..3}

\* Incoming directions of integer length, and unit normals; a hit record's
\* normal is oriented against the ray (hittable.rs 61), so direction . normal
\* <= 0, with 0 at a tangent hit.
MetalDirections == {<<0, 0, 1>>, <<12, 0, 5>>, <<0, 0, -1>>, <<3, 0, -4>>}
MetalNormals == {[v |-> <<0, 0, -1>>, d |-> 1], [v |-> <<0, 0, 1>>, d |-> 1],
                 [v |-> <<-1, 0, 0>>, d |-> 1]}

\* random_vector_in_unit_sphere, material.rs 115-125: x, y, z in [0, 1) with
\* x^2 + y^2 + z^2 <= 1; here the multiples of 1/2.
RandomVectors ==
    {[v |-> <<i, j, k>>, d |-> 2] : i \in 0..1, j \in 0..1, k \in 0..1}

MetalInit ==
    /\ fuzzArg \in FuzzArgs
    /\ metal = <<>>
    /\ mray \in [origin : {<<0, 0, 0>>}, direction : MetalDirections]
    /\ mrecord \in [p : {<<0, 0, 0>>}, normal : MetalNormals]
    /\ dot(mray.direction, mrecord.normal.v) <= 0
    /\ mrandom \in RandomVectors
    /\ scattered = None
    /\ mpc = "new"
    /\ TraceIdle /\ RenderIdle /\ HitIdle

metal_new ==
    /\ mpc = "new"
    /\ \E albedo \in {Color(7, 6, 5), Color(5, 5, 5)} :
           metal' = MetalNew(albedo, fuzzArg)
    /\ mpc' = "built"
    /\ UNCHANGED <<fuzzArg, mray, mrecord, mrandom, scattered>>
    /\ UNCHANGED <<traceVars, renderVars, hitVars>>

metal_scatter ==
    /\ mpc = "built"
    /\ scattered' = MetalScatter(metal, mray, mrecord, mrandom)
    /\ mpc' = "returned"
    /\ UNCHANGED <<fuzzArg, metal, mray, mrecord, mrandom>>
    /\ UNCHANGED <<traceVars, renderVars, hitVars>>

MetalNext == metal_new \/ metal_scatter

MetalSpec == MetalInit /\ [][MetalNext]_vars

-----------------------------------------------------------------------------
(* Properties of Metal                                                     *)

\* The reflected direction plus fuzz times the random vector.
Perturbed == RVAdd(Reflected(mray, mrecord), RVScale(metal.fuzz, mrandom))

\* C7: scatter returns None exactly when the perturbed reflection has a dot
\* product <= 0 with the normal; a scattered ray's direction has a dot
\* product > 0 with the normal, and the attenuation is the albedo.  Stated
\* for the metals built with a fuzz in [0, 1], so that no out-of-range fuzz
\* is needed to refute it.
C7_ScatterRejectsPerturbedIntoSurface ==
    (mpc = "returned" /\ 0 <= fuzzArg.n /\ fuzzArg.n <= fuzzArg.d) =>
        /\ scattered = None <=> ~RatPositive(RVDot(Perturbed, mrecord.normal))
        /\ scattered # None =>
               /\ RatPositive(RVDot(scattered[1].ray.direction, mrecord.normal))
               /\ scattered[1].attenuation = metal.albedo

\* C8: the fuzz stored by Metal::new lies in [0, 1].
C8_StoredFuzzInUnitInterval ==
    metal # <<>> => 0 <= metal.fuzz.n /\ metal.fuzz.n <= metal.fuzz.d

====
